---- MODULE Spec2Model ----
(***************************************************************************)
(* The two tutorial notebooks of machine_learning_class, as one state      *)
(* machine.  A run executes one notebook top to bottom: the kernel's       *)
(* namespace is the state, every code cell (and every iteration of a loop  *)
(* inside a cell) is an action.  A third mode walks Net.forward one layer  *)
(* at a time over a bounded set of input shapes.                           *)
(*                                                                         *)
(* Third-party calls (pandas, scikit-learn, torch, torchvision) are given  *)
(* integer stand-ins: real numbers are kept as exact fractions, a fitted   *)
(* model is a small integer weight vector, a data set is a short sequence  *)
(* of records.                                                             *)
(***************************************************************************)
EXTENDS Integers, Sequences, FiniteSets, TLC

VARIABLES
    nb,             \* which notebook is being run: "mlp", "cnn", or "net" (Net.forward alone)
    pc,             \* the cell / statement about to run
    err,            \* "none", or the exception that terminated the run
    fs,             \* the files present in the working directory
    stdout,         \* console output, one tuple per print / displayed value
    plots,          \* inline figures rendered so far
    trace,          \* the stages executed so far (consecutive repeats collapsed)
    i,              \* loop index `i`
    \* ---- MLP notebook namespace
    df, X, y, perm, X_train, X_test, y_train, y_test, scaler, clf, x_predict, auc,
    \* ---- CNN notebook namespace
    net, trainset, testset, dataiter, images, labels, criterion, optimizer,
    epoch, running_loss, data, inputs, outputs, loss, predicted,
    correct, total, class_correct, class_total, net_intermediate,
    it,             \* the iterator a `for ... in loader` statement is drawing from
    \* ---- Net.forward
    x_in,           \* the size of the tensor forward() was called with
    x,              \* the size of the tensor `x` inside forward()
    layer           \* how many operations of forward() have been applied to x

commonVars == <<nb, pc, err, fs, stdout, plots, trace, i>>
mlpVars == <<df, X, y, perm, X_train, X_test, y_train, y_test, scaler, clf, x_predict, auc>>
dataVars == <<trainset, testset, dataiter, images, labels>>
trainVars == <<criterion, optimizer, epoch, running_loss, data, inputs, loss>>
evalVars == <<outputs, predicted, correct, total, class_correct, class_total, net_intermediate>>
cnnVars == <<net, it, dataVars, trainVars, evalVars>>
fwdVars == <<x_in, x, layer>>
vars == <<commonVars, mlpVars, cnnVars, fwdVars>>

----------------------------------------------------------------------------
(* Bounds of the model *)

\* rows of the larger data.csv
NRows == 34
\* rows of the smaller data.csv (too few test samples for the ten-row table)
SmallRows == 5
\* the shuffles train_test_split may draw: rotations by 0..MaxRot
MaxRot == 2
\* batches in one pass over trainloader
NumTrainBatches == 3
\* batches in one pass over testloader
NumTestBatches == 3
\* batches in one pass over trainloader when the training cell is run on a
\* data set long enough for two loss lines per epoch and a remainder
LongTrainBatches == 4001
\* the data sets the download may deliver: variants 0..MaxVariant
MaxVariant == 2
\* input heights and widths tried on Net.forward: 32 - SideSlack .. 32 + SideSlack
SideSlack == 2
\* batch sizes tried on Net.forward: 1..MaxFwdBatch
MaxFwdBatch == 2

----------------------------------------------------------------------------
(* Program constants *)

\* range(10) of the probability table
NPrint == 10
\* cross_val_score(..., cv=3)
CvFolds == 3
\* DataLoader(..., batch_size=4)
BatchSize == 4
\* DataLoader(..., num_workers=2)
NumWorkers == 2
\* for epoch in range(2)
NumEpochs == 2
\* if i % 2000 == 1999 ... running_loss / 2000
PrintEvery == 2000
\* the ten CIFAR-10 classes: range(10), len(classes)
NumClasses == 10
\* for i in range(4) of the class-by-class loop
ClassLoopRange == 4

----------------------------------------------------------------------------
(* Helpers *)

Min(a, b) == IF a < b THEN a ELSE b
Max(a, b) == IF a > b THEN a ELSE b

RECURSIVE SeqSum(_)
SeqSum(s) == IF s = <<>> THEN 0 ELSE s[1] + SeqSum(Tail(s))

\* Stage log: a stage is appended unless it is the stage already running.
Log(tr, stage) == IF tr # <<>> /\ tr[Len(tr)] = stage THEN tr ELSE Append(tr, stage)

RECURSIVE FirstMaxFrom(_, _, _)
FirstMaxFrom(v, k, best) ==
    IF k > Len(v) THEN best
    ELSE FirstMaxFrom(v, k + 1, IF v[k] > v[best] THEN k ELSE best)

np_argmax_last(v) ==
    LET m == CHOOSE a \in {v[k] : k \in 1..Len(v)} : \A k \in 1..Len(v) : v[k] <= a
    IN  (CHOOSE k \in 1..Len(v) : v[k] = m /\ \A j \in 1..Len(v) : v[j] = m => j <= k) - 1

\* np.argmax(row): the 0-based index of the first maximum.
np_argmax(v) == FirstMaxFrom(v, 2, 1) - 1

----------------------------------------------------------------------------
(* The cells of each notebook, in file order *)

MLPCells ==
    << "m_imports", "m_load", "m_features", "m_labels", "m_split", "m_scale",
       "m_clf", "m_fit", "m_cross_val", "m_predict", "m_print", "m_roc",
       "m_rocplot", "m_contour" >>

CNNCells_criterionFirst ==
    << "c_imports", "c_net", "c_named_params", "c_param_sum", "c_numel",
       "c_print_params", "c_transform", "c_datasets", "c_imshow_def", "c_dataiter",
       "c_criterion", "c_show_batch", "c_optimizer", "c_train", "c_test_batch",
       "c_outputs", "c_predicted", "c_eval", "c_class_eval", "c_intermediate",
       "c_test_batch2", "c_filters" >>

CNNCells ==
    << "c_imports", "c_net", "c_named_params", "c_param_sum", "c_numel",
       "c_print_params", "c_transform", "c_datasets", "c_imshow_def", "c_dataiter",
       "c_show_batch", "c_criterion", "c_optimizer", "c_train", "c_test_batch",
       "c_outputs", "c_predicted", "c_eval", "c_class_eval", "c_intermediate",
       "c_test_batch2", "c_filters" >>

Cells == IF nb = "mlp" THEN MLPCells ELSE CNNCells

\* The cell that runs after `cell` in a top-to-bottom run.
After(cell) ==
    LET k == CHOOSE j \in 1..Len(Cells) : Cells[j] = cell
    IN  IF k = Len(Cells) THEN "done" ELSE Cells[k + 1]

Running_resume == TRUE

\* An uncaught exception ends the run: no cell has a try/except.
Running == err = "none"

----------------------------------------------------------------------------
(* MLP notebook: the data file and the library calls *)

\* Row k of a data.csv of variant s: diagnosis and the two columns the notebook reads.
CsvRow(k, s) ==
    LET malignant == (k + s) % 3 = 0
    IN  [ diagnosis    |-> IF malignant THEN "M" ELSE "B",
          texture_mean |-> 10 + ((k * (s + 1)) % 7),
          radius_mean  |-> 8 + ((k + 2 * s) % 5) + (IF malignant THEN 6 ELSE 0) ]

\* The files data.csv may be: two sizes, variants 0..1 of each.
CsvFiles == { [k \in 1..n |-> CsvRow(k, s)] : n \in {SmallRows, NRows}, s \in 0..1 }

\* preprocessing.LabelEncoder().fit(['B', 'M']).transform: classes sorted, B -> 0, M -> 1.
le_transform(d) == IF d = "B" THEN 0 ELSE 1

\* train_test_split(X, y, test_size=.3): n_test = ceil(0.3 * n).
NumTest(n) == (3 * n + 9) \div 10

\* The shuffled indices: the first NumTest(n) of them are the test fold.
Shuffle(n, r) == [j \in 1..n |-> ((j - 1 + r) % n) + 1]

ColSum(D, j) == SeqSum([k \in 1..Len(D) |-> D[k][j]])
ColSumSq(D, j) == SeqSum([k \in 1..Len(D) |-> D[k][j] * D[k][j]])

\* StandardScaler().fit(D): per feature j, mean = sum[j] / n and
\* scale = sqrt(den2[j]) / n, where den2 = n^2 * variance (a zero variance is scaled by 1).
StandardScaler_fit(D) ==
    LET n == Len(D)
    IN  [ fitted |-> TRUE,
          n      |-> n,
          sum    |-> [j \in 1..2 |-> ColSum(D, j)],
          den2   |-> [j \in 1..2 |->
                        LET v == n * ColSumSq(D, j) - ColSum(D, j) * ColSum(D, j)
                        IN  IF v = 0 THEN n * n ELSE v] ]

\* scaler.transform(D): (x - mean) / scale = (n*x - sum) / sqrt(den2), kept as <<num, den2>>.
StandardScaler_transform(s, D) ==
    [k \in 1..Len(D) |-> [j \in 1..2 |-> << s.n * D[k][j] - s.sum[j], s.den2[j] >>]]

FitInput_leak == X_train \o X_test

\* The argument of scaler.fit.
FitInput == X_train

\* The weight vectors clf.fit may end with.
ClfWeights == { <<0, 0, 0>>, <<-3, 0, 1>>, <<5, 1, -1>> }

\* clf.predict_proba on one scaled sample: <<P1, P2>> in percent, P1 + P2 = 100.
predict_proba(c, row) ==
    LET score == c.w[1] + c.w[2] * row[1][1] + c.w[3] * row[2][1]
        p2 == Max(0, Min(100, 50 + score))
    IN  << 100 - p2, p2 >>

\* cross_val_score(clf, X_train, y_train, cv=3): per fold <<correct, size>>.
cross_val_score(c, D, t) ==
    [f \in 1..CvFolds |->
        LET fold == {k \in 1..Len(D) : (k - 1) % CvFolds = f - 1}
        IN  << Cardinality({k \in fold : np_argmax(predict_proba(c, D[k])) = t[k]}),
               Cardinality(fold) >>]

\* roc_auc_score(y_true, score) as the fraction <<num, den>>.
roc_auc_score(t, p) ==
    LET pos == {k \in 1..Len(t) : t[k] = 1}
        neg == {k \in 1..Len(t) : t[k] = 0}
        wins == Cardinality({pr \in pos \X neg : p[pr[1]] > p[pr[2]]})
        ties == Cardinality({pr \in pos \X neg : p[pr[1]] = p[pr[2]]})
    IN  << 2 * wins + ties, 2 * Cardinality(pos) * Cardinality(neg) >>

----------------------------------------------------------------------------
(* Frame helpers *)

\* An exception propagates: nothing but `err` changes, and the cell is abandoned.
Raise(e) ==
    /\ err' = e
    /\ UNCHANGED <<nb, pc, fs, stdout, plots, trace, i, mlpVars, cnnVars, fwdVars>>

----------------------------------------------------------------------------
(* MLP notebook: the cells *)

\* Imports, figure constants, np.random.seed(100).
M_Imports ==
    /\ Running /\ pc = "m_imports"
    /\ pc' = After("m_imports")
    /\ UNCHANGED <<nb, err, fs, stdout, plots, trace, i, mlpVars, cnnVars, fwdVars>>

\* df = pd.read_csv('data.csv'); df.head()
M_Load ==
    /\ Running /\ pc = "m_load"
    /\ IF "data.csv" \in fs
       THEN /\ \E csv \in CsvFiles : df' = csv
            /\ stdout' = Append(stdout, <<"df.head", Min(5, Len(df'))>>)
            /\ trace' = Log(trace, "acquire")
            /\ pc' = After("m_load")
            /\ UNCHANGED <<nb, err, fs, plots, i, X, y, perm, X_train, X_test,
                           y_train, y_test, scaler, clf, x_predict, auc, cnnVars, fwdVars>>
       ELSE Raise("FileNotFoundError")

\* X = np.transpose(np.vstack((texture_mean, radius_mean)))
M_Features ==
    /\ Running /\ pc = "m_features"
    /\ X' = [k \in 1..Len(df) |-> << df[k].texture_mean, df[k].radius_mean >>]
    /\ trace' = Log(trace, "acquire")
    /\ pc' = After("m_features")
    /\ UNCHANGED <<nb, err, fs, stdout, plots, i, df, y, perm, X_train, X_test,
                   y_train, y_test, scaler, clf, x_predict, auc, cnnVars, fwdVars>>

\* le.fit(['B', 'M']); y = le.transform(df.diagnosis)
M_Labels ==
    /\ Running /\ pc = "m_labels"
    /\ IF \E k \in 1..Len(df) : df[k].diagnosis \notin {"B", "M"}
       THEN Raise("ValueError")
       ELSE /\ y' = [k \in 1..Len(df) |-> le_transform(df[k].diagnosis)]
            /\ trace' = Log(trace, "acquire")
            /\ pc' = After("m_labels")
            /\ UNCHANGED <<nb, err, fs, stdout, plots, i, df, X, perm, X_train, X_test,
                           y_train, y_test, scaler, clf, x_predict, auc, cnnVars, fwdVars>>

\* X_train, X_test, y_train, y_test = train_test_split(X, y, test_size=.3)
M_Split ==
    /\ Running /\ pc = "m_split"
    /\ \E r \in 0..MaxRot :
         LET n == Len(X)
             nt == NumTest(n)
             p == Shuffle(n, r)
         IN  /\ perm' = p
             /\ X_test' = [j \in 1..nt |-> X[p[j]]]
             /\ y_test' = [j \in 1..nt |-> y[p[j]]]
             /\ X_train' = [j \in 1..(n - nt) |-> X[p[nt + j]]]
             /\ y_train' = [j \in 1..(n - nt) |-> y[p[nt + j]]]
    /\ trace' = Log(trace, "acquire")
    /\ pc' = After("m_split")
    /\ UNCHANGED <<nb, err, fs, stdout, plots, i, df, X, y, scaler, clf, x_predict,
                   auc, cnnVars, fwdVars>>

\* scaler = StandardScaler(); scaler.fit(X_train);
\* X_train = scaler.transform(X_train); X_test = scaler.transform(X_test)
M_Scale ==
    /\ Running /\ pc = "m_scale"
    /\ scaler' = StandardScaler_fit(FitInput)
    /\ X_train' = StandardScaler_transform(scaler', X_train)
    /\ X_test' = StandardScaler_transform(scaler', X_test)
    /\ trace' = Log(trace, "acquire")
    /\ pc' = After("m_scale")
    /\ UNCHANGED <<nb, err, fs, stdout, plots, i, df, X, y, perm, y_train, y_test,
                   clf, x_predict, auc, cnnVars, fwdVars>>

\* clf = MLPClassifier(solver='sgd', alpha=1e-5, max_iter=2000,
\*                     hidden_layer_sizes=(4), random_state=1)
M_Clf ==
    /\ Running /\ pc = "m_clf"
    /\ clf' = [ solver |-> "sgd", max_iter |-> 2000, hidden_layer_sizes |-> 4,
                random_state |-> 1, fitted |-> FALSE, w |-> <<0, 0, 0>> ]
    /\ trace' = Log(trace, "configure")
    /\ pc' = After("m_clf")
    /\ UNCHANGED <<nb, err, fs, stdout, plots, i, df, X, y, perm, X_train, X_test,
                   y_train, y_test, scaler, x_predict, auc, cnnVars, fwdVars>>

\* clf.fit(X_train, y_train); the cell displays the fitted estimator.
M_Fit ==
    /\ Running /\ pc = "m_fit"
    /\ \E w \in ClfWeights : clf' = [clf EXCEPT !.fitted = TRUE, !.w = w]
    /\ stdout' = Append(stdout, <<"MLPClassifier">>)
    /\ trace' = Log(trace, "fit")
    /\ pc' = After("m_fit")
    /\ UNCHANGED <<nb, err, fs, plots, i, df, X, y, perm, X_train, X_test,
                   y_train, y_test, scaler, x_predict, auc, cnnVars, fwdVars>>

\* scores = cross_val_score(clf, X_train, y_train, cv=3); print('Accuracy: ...')
M_CrossVal ==
    /\ Running /\ pc = "m_cross_val"
    /\ IF Len(X_train) < CvFolds
       THEN Raise("ValueError")
       ELSE /\ stdout' = Append(stdout, <<"Accuracy", cross_val_score(clf, X_train, y_train)>>)
            /\ trace' = Log(trace, "predict")
            /\ pc' = After("m_cross_val")
            /\ UNCHANGED <<nb, err, fs, plots, i, mlpVars, cnnVars, fwdVars>>

\* x_predict = clf.predict_proba(X_test)
M_Predict ==
    /\ Running /\ pc = "m_predict"
    /\ x_predict' = [k \in 1..Len(X_test) |-> predict_proba(clf, X_test[k])]
    /\ trace' = Log(trace, "predict")
    /\ pc' = After("m_predict")
    /\ UNCHANGED <<nb, err, fs, stdout, plots, i, df, X, y, perm, X_train, X_test,
                   y_train, y_test, scaler, clf, auc, cnnVars, fwdVars>>

\* print('P1\tP2\tPc\tLabel\n'), then the loop header `for i in range(10)`.
M_PrintHeader ==
    /\ Running /\ pc = "m_print"
    /\ stdout' = Append(stdout, <<"P1", "P2", "Pc", "Label">>)
    /\ i' = 0
    /\ trace' = Log(trace, "predict")
    /\ pc' = "m_print_loop"
    /\ UNCHANGED <<nb, err, fs, plots, mlpVars, cnnVars, fwdVars>>

\* One iteration: print(x_predict[i,0], x_predict[i,1], np.argmax(x_predict[i,:]), y_test[i])
M_PrintRow ==
    /\ Running /\ pc = "m_print_loop"
    /\ IF i >= NPrint
       THEN /\ pc' = After("m_print")
            /\ UNCHANGED <<nb, err, fs, stdout, plots, trace, i, mlpVars, cnnVars, fwdVars>>
       ELSE IF i >= Len(x_predict)
       THEN Raise("IndexError")
       ELSE /\ stdout' = Append(stdout, << "row", x_predict[i + 1][1], x_predict[i + 1][2],
                                           np_argmax(x_predict[i + 1]), y_test[i + 1] >>)
            /\ i' = i + 1
            /\ UNCHANGED <<nb, pc, err, fs, plots, trace, mlpVars, cnnVars, fwdVars>>

\* fpr, tpr, thresholds = roc_curve(y_test, x_predict[:,1]); auc = roc_auc_score(...)
M_Roc ==
    /\ Running /\ pc = "m_roc"
    /\ IF \A k \in 1..Len(y_test) : y_test[k] = y_test[1]
       THEN Raise("ValueError")
       ELSE /\ auc' = roc_auc_score(y_test, [k \in 1..Len(x_predict) |-> x_predict[k][2]])
            /\ trace' = Log(trace, "predict")
            /\ pc' = After("m_roc")
            /\ UNCHANGED <<nb, err, fs, stdout, plots, i, df, X, y, perm, X_train, X_test,
                           y_train, y_test, scaler, clf, x_predict, cnnVars, fwdVars>>

FigureFiles_savefig == { "roc.png" }

\* The files the ROC cell saves: plt.show() only, no savefig.
FigureFiles == {}

\* The ROC figure: plt.subplots ... plt.show()
M_RocPlot ==
    /\ Running /\ pc = "m_rocplot"
    /\ plots' = Append(plots, <<"ROC Curve", auc>>)
    /\ fs' = fs \cup FigureFiles
    /\ trace' = Log(trace, "plot")
    /\ pc' = After("m_rocplot")
    /\ UNCHANGED <<nb, err, stdout, i, mlpVars, cnnVars, fwdVars>>

\* The decision landscape: a mesh over the range of X_train, clf.predict_proba on
\* the mesh (MLPClassifier has no decision_function), contourf and two scatters.
M_Contour ==
    /\ Running /\ pc = "m_contour"
    /\ LET lo(j) == CHOOSE a \in {X_train[k][j][1] : k \in 1..Len(X_train)} :
                       \A k \in 1..Len(X_train) : a <= X_train[k][j][1]
           hi(j) == CHOOSE a \in {X_train[k][j][1] : k \in 1..Len(X_train)} :
                       \A k \in 1..Len(X_train) : a >= X_train[k][j][1]
           mesh == { << <<a, scaler.den2[1]>>, <<b, scaler.den2[2]>> >> :
                        a \in {lo(1), hi(1)}, b \in {lo(2), hi(2)} }
           Z == { <<m, predict_proba(clf, m)[2]>> : m \in mesh }
       IN  plots' = Append(plots, <<"Neural Network Classification Landscape", Z>>)
    /\ trace' = Log(Log(trace, "predict"), "plot")
    /\ pc' = After("m_contour")
    /\ UNCHANGED <<nb, err, fs, stdout, i, mlpVars, cnnVars, fwdVars>>

MLPNext ==
    \/ M_Imports \/ M_Load \/ M_Features \/ M_Labels \/ M_Split \/ M_Scale
    \/ M_Clf \/ M_Fit \/ M_CrossVal \/ M_Predict \/ M_PrintHeader \/ M_PrintRow
    \/ M_Roc \/ M_RocPlot \/ M_Contour

----------------------------------------------------------------------------
(* class Net: the layers of __init__ and the sizes forward() produces *)

conv1 == [ kind |-> "Conv2d", in_channels |-> 3, out_channels |-> 6, kernel_size |-> 5 ]
pool  == [ kind |-> "MaxPool2d", kernel_size |-> 2, stride |-> 2 ]
conv2 == [ kind |-> "Conv2d", in_channels |-> 6, out_channels |-> 16, kernel_size |-> 5 ]
fc1   == [ kind |-> "Linear", in_features |-> 16 * 5 * 5, out_features |-> 120 ]
fc2   == [ kind |-> "Linear", in_features |-> 120, out_features |-> 84 ]
fc3   == [ kind |-> "Linear", in_features |-> 84, out_features |-> 10 ]

\* x.view(-1, 16 * 5 * 5)
ViewFeatures == 16 * 5 * 5

\* A size is <<N, C, H, W>> or <<N, F>>; <<>> stands for the RuntimeError a
\* layer raises on a size it cannot take.
RECURSIVE Numel(_)
Numel(s) == IF s = <<>> THEN 1 ELSE s[1] * Numel(Tail(s))

\* nn.Conv2d with stride 1, padding 0, dilation 1: out = in - kernel_size + 1.
Conv2d(l, s) ==
    IF Len(s) # 4 THEN <<>>
    ELSE IF s[2] # l.in_channels \/ s[3] < l.kernel_size \/ s[4] < l.kernel_size THEN <<>>
    ELSE << s[1], l.out_channels, s[3] - l.kernel_size + 1, s[4] - l.kernel_size + 1 >>

\* nn.MaxPool2d (padding 0, floor mode): out = floor((in - kernel_size) / stride) + 1.
MaxPool2d(l, s) ==
    IF Len(s) # 4 THEN <<>>
    ELSE IF s[3] < l.kernel_size \/ s[4] < l.kernel_size THEN <<>>
    ELSE << s[1], s[2], (s[3] - l.kernel_size) \div l.stride + 1,
            (s[4] - l.kernel_size) \div l.stride + 1 >>

\* F.relu: elementwise.
relu(s) == s

\* x.view(-1, f): the elements regrouped in rows of f.
view(s, f) ==
    IF s = <<>> \/ Numel(s) % f # 0 THEN <<>> ELSE << Numel(s) \div f, f >>

\* nn.Linear: the last dimension must be in_features.
Linear(l, s) ==
    IF s = <<>> THEN <<>>
    ELSE IF s[Len(s)] # l.in_features THEN <<>>
    ELSE [s EXCEPT ![Len(s)] = l.out_features]

ForwardOps_noPool2 ==
    << "conv1", "relu", "pool", "conv2", "relu", "view", "fc1", "relu", "fc2", "relu", "fc3" >>

\* The operations of forward(), in evaluation order.
ForwardOps ==
    << "conv1", "relu", "pool", "conv2", "relu", "pool", "view",
       "fc1", "relu", "fc2", "relu", "fc3" >>

ApplyOp(op, s) ==
    CASE op = "conv1" -> Conv2d(conv1, s)
      [] op = "conv2" -> Conv2d(conv2, s)
      [] op = "pool"  -> MaxPool2d(pool, s)
      [] op = "relu"  -> relu(s)
      [] op = "view"  -> view(s, ViewFeatures)
      [] op = "fc1"   -> Linear(fc1, s)
      [] op = "fc2"   -> Linear(fc2, s)
      [] op = "fc3"   -> Linear(fc3, s)

RECURSIVE ApplyOps(_, _)
ApplyOps(ops, s) ==
    IF ops = <<>> \/ s = <<>> THEN s ELSE ApplyOps(Tail(ops), ApplyOp(ops[1], s))

\* The size net(x) returns for an input of size s (<<>>: it raises).
forward(s) == ApplyOps(ForwardOps, s)

named_parameters_weightsOnly ==
    << << "conv1.weight", << conv1.out_channels, conv1.in_channels,
                             conv1.kernel_size, conv1.kernel_size >> >>,
       << "conv2.weight", << conv2.out_channels, conv2.in_channels,
                             conv2.kernel_size, conv2.kernel_size >> >>,
       << "fc1.weight",   << fc1.out_features, fc1.in_features >> >>,
       << "fc2.weight",   << fc2.out_features, fc2.in_features >> >>,
       << "fc3.weight",   << fc3.out_features, fc3.in_features >> >> >>

\* net.named_parameters(): weight and bias of every layer that has them.
named_parameters ==
    << << "conv1.weight", << conv1.out_channels, conv1.in_channels,
                             conv1.kernel_size, conv1.kernel_size >> >>,
       << "conv1.bias",   << conv1.out_channels >> >>,
       << "conv2.weight", << conv2.out_channels, conv2.in_channels,
                             conv2.kernel_size, conv2.kernel_size >> >>,
       << "conv2.bias",   << conv2.out_channels >> >>,
       << "fc1.weight",   << fc1.out_features, fc1.in_features >> >>,
       << "fc1.bias",     << fc1.out_features >> >>,
       << "fc2.weight",   << fc2.out_features, fc2.in_features >> >>,
       << "fc2.bias",     << fc2.out_features >> >>,
       << "fc3.weight",   << fc3.out_features, fc3.in_features >> >>,
       << "fc3.bias",     << fc3.out_features >> >> >>

\* sum(p.numel() for p in net.parameters() if p.requires_grad)
TrainableParameters ==
    SeqSum([k \in 1..Len(named_parameters) |-> Numel(named_parameters[k][2])])

\* The hand-written sum of the notebook.
HandWrittenSum ==
    6*3*5*5 + 6 + 16*6*5*5 + 16 + 120*400 + 120 + 84*120 + 84 + 10*84 + 10

\* The sizes tried on forward() alone.
InputShapes ==
    { << n, c, h, w >> : n \in 1..MaxFwdBatch, c \in {1, 3},
                         h \in (32 - SideSlack)..(32 + SideSlack),
                         w \in (32 - SideSlack)..(32 + SideSlack) }

\* One operation of forward() applied to x.
F_Apply ==
    /\ Running /\ pc = "forward" /\ layer < Len(ForwardOps)
    /\ LET s == ApplyOp(ForwardOps[layer + 1], x)
       IN  IF s = <<>>
           THEN Raise("RuntimeError")
           ELSE /\ x' = s
                /\ layer' = layer + 1
                /\ UNCHANGED <<commonVars, mlpVars, cnnVars, x_in>>

\* return x
F_Return ==
    /\ Running /\ pc = "forward" /\ layer = Len(ForwardOps)
    /\ pc' = "done"
    /\ UNCHANGED <<nb, err, fs, stdout, plots, trace, i, mlpVars, cnnVars, fwdVars>>

FwdNext == F_Apply \/ F_Return

----------------------------------------------------------------------------
(* CNN notebook: data sets, loaders and the library calls *)

\* What CIFAR10(root='./', download=True) leaves in the working directory.
CifarFiles == { "./cifar-10-python.tar.gz", "./cifar-10-batches-py" }

\* The size of one CIFAR-10 image: 3 channels, 32 x 32.
ImageShape == << 3, 32, 32 >>

\* A sample is [label, feat]: its class, and the class its pixels look like.
TrainSample(k, v) ==
    [ label |-> (k + v) % NumClasses,
      feat  |-> IF k % 4 = 3 THEN (k + v + 1) % NumClasses ELSE (k + v) % NumClasses ]

TestSample(k, v) ==
    [ label |-> (3 * k + v) % NumClasses,
      feat  |-> IF (k + v) % 3 = 0 THEN (3 * k + v + 5) % NumClasses
                ELSE (3 * k + v) % NumClasses ]

\* A CIFAR10 object: which split it is, how many samples it holds and which
\* variant of the data it was read from; NoDataset before the cell has run.
NoDataset == [train |-> FALSE, len |-> 0, v |-> 0]

\* Variant v of the data: whole batches, as in CIFAR-10 (50000 and 10000 images).
TrainSet(v) == [train |-> TRUE, len |-> NumTrainBatches * BatchSize, v |-> v]
TestSet(v) == [train |-> FALSE, len |-> NumTestBatches * BatchSize, v |-> v]

\* len(ds) and ds[k - 1]
DatasetLen(ds) == ds.len
GetItem(ds, k) == IF ds.train THEN TrainSample(k - 1, ds.v) ELSE TestSample(k - 1, ds.v)

\* len(DataLoader(ds, batch_size=bs)), drop_last=False.
LoaderLen(ds, bs) == (DatasetLen(ds) + bs - 1) \div bs

\* Batch j (from 0) of a pass whose sampler drew the rotation `shift`: <<images, labels>>.
LoaderBatch(ds, bs, shift, j) ==
    LET n == Min(bs, DatasetLen(ds) - j * bs)
        at(t) == GetItem(ds, ((j * bs + t - 1 + shift) % DatasetLen(ds)) + 1)
    IN  << [t \in 1..n |-> at(t).feat], [t \in 1..n |-> at(t).label] >>

\* iter(trainloader): shuffle=True draws an order; iter(testloader): shuffle=False.
\* With num_workers=2 the iterator starts worker processes that load the
\* batches: pos batches have been handed to the notebook, `ready` batches have
\* been put on the iterator's queue by the workers.
TrainIters == { [loader |-> "train", shift |-> r, pos |-> 0, ready |-> 0] : r \in 0..MaxRot }
TestIter == [loader |-> "test", shift |-> 0, pos |-> 0, ready |-> 0]

\* `dataiter`, or the iterator of a for loop, before there is one.
NoIter == [loader |-> "none", shift |-> 0, pos |-> 0, ready |-> 0]

IterSet(t) ==
    IF t.loader = "train" THEN trainset
    ELSE IF t.loader = "test" THEN testset
    ELSE NoDataset
IterHasNext(t) == t.pos < LoaderLen(IterSet(t), BatchSize)
IterBatch(t) == LoaderBatch(IterSet(t), BatchSize, t.shift, t.pos)
IterAdvance(t) == [t EXCEPT !.pos = t.pos + 1]

IterCanTake_noWait(t) == TRUE

\* next(t) returns once the batch it is to hand over is on the queue.
IterCanTake(t) == t.pos < t.ready

\* The workers of t have a batch to load: not all are loaded, and fewer than
\* one per worker wait on the queue.
WorkersCanLoad(t) ==
    t.ready < Min(LoaderLen(IterSet(t), BatchSize), t.pos + NumWorkers)

\* t after a worker has put the next batch on the queue.
IterLoaded(t) == [t EXCEPT !.ready = t.ready + 1]

\* iter(loader) followed at once by next(): the call returns when the workers
\* have loaded the first batch.
IterFirst(t) == IterAdvance(IterLoaded(t))

\* The ten outputs of the network for one image, with weights trained to level w.
NetOutputs(w, feat) ==
    [c \in 1..NumClasses |-> IF c - 1 = feat THEN w ELSE IF c = 1 THEN 2 ELSE 0]

\* net(batch): one row of outputs per image.
NetCall(w, batch) == [k \in 1..Len(batch) |-> NetOutputs(w, batch[k])]

\* torch.max(outputs, 1)[1] on one row: the index of the largest output.
torch_max(row) == FirstMaxFrom(row, 2, 1) - 1

CountEqual_dropLast(p, l) == Cardinality({k \in 1..(Len(l) - 1) : p[k] = l[k]})

\* (predicted == labels).sum().item()
CountEqual(p, l) == Cardinality({k \in 1..Len(l) : p[k] = l[k]})

\* criterion(outputs, labels): the loss of a batch (a whole number standing for it).
CrossEntropyLoss(o, l) == Cardinality({k \in 1..Len(l) : torch_max(o[k]) # l[k]})

TrainBody_zeroGradLate ==
    << "t_unpack", "t_forward", "t_loss", "t_backward", "t_zero_grad", "t_step",
       "t_accumulate", "t_print" >>

\* The statements of the training loop's body, in order.
TrainBody ==
    << "t_unpack", "t_zero_grad", "t_forward", "t_loss", "t_backward", "t_step",
       "t_accumulate", "t_print" >>

\* Where control goes after statement st of the body: the next statement, or
\* back to the loop header.
BodyAfter(st) ==
    LET k == CHOOSE j \in 1..Len(TrainBody) : TrainBody[j] = st
    IN  IF k = Len(TrainBody) THEN "t_next" ELSE TrainBody[k + 1]

EpochRange_three == NumEpochs + 1

\* for epoch in range(2)
EpochRange == NumEpochs

----------------------------------------------------------------------------
(* CNN notebook: the cells up to training *)

C_Imports ==
    /\ Running /\ pc = "c_imports"
    /\ pc' = After("c_imports")
    /\ UNCHANGED <<nb, err, fs, stdout, plots, trace, i, mlpVars, cnnVars, fwdVars>>

\* class Net(nn.Module): ...; net = Net()
C_Net ==
    /\ Running /\ pc = "c_net"
    /\ net' = [defined |-> TRUE, w |-> 0, grad |-> 0]
    /\ trace' = Log(trace, "configure")
    /\ pc' = After("c_net")
    /\ UNCHANGED <<nb, err, fs, stdout, plots, i, mlpVars, it, dataVars, trainVars,
                   evalVars, fwdVars>>

\* print name and size of every parameter
C_NamedParams ==
    /\ Running /\ pc = "c_named_params"
    /\ IF net.defined
       THEN /\ stdout' = Append(stdout, <<"Name:", named_parameters>>)
            /\ trace' = Log(trace, "configure")
            /\ pc' = After("c_named_params")
            /\ UNCHANGED <<nb, err, fs, plots, i, mlpVars, cnnVars, fwdVars>>
       ELSE Raise("NameError")

\* 6*3*5*5 + 6 + ... + 10*84 + 10 (the cell's value is displayed)
C_ParamSum ==
    /\ Running /\ pc = "c_param_sum"
    /\ stdout' = Append(stdout, <<"Out", HandWrittenSum>>)
    /\ pc' = After("c_param_sum")
    /\ UNCHANGED <<nb, err, fs, plots, trace, i, mlpVars, cnnVars, fwdVars>>

\* print('Total number of trainable parameters: ...')
C_Numel ==
    /\ Running /\ pc = "c_numel"
    /\ IF net.defined
       THEN /\ stdout' = Append(stdout, <<"Total number of trainable parameters",
                                          TrainableParameters>>)
            /\ trace' = Log(trace, "configure")
            /\ pc' = After("c_numel")
            /\ UNCHANGED <<nb, err, fs, plots, i, mlpVars, cnnVars, fwdVars>>
       ELSE Raise("NameError")

\* for param in [...]: print(param)
C_PrintParams ==
    /\ Running /\ pc = "c_print_params"
    /\ IF net.defined
       THEN /\ stdout' = Append(stdout, <<"Parameter", Len(named_parameters)>>)
            /\ trace' = Log(trace, "configure")
            /\ pc' = After("c_print_params")
            /\ UNCHANGED <<nb, err, fs, plots, i, mlpVars, cnnVars, fwdVars>>
       ELSE Raise("NameError")

\* transform = transforms.Compose([ToTensor(), Normalize(...)])
C_Transform ==
    /\ Running /\ pc = "c_transform"
    /\ trace' = Log(trace, "acquire")
    /\ pc' = After("c_transform")
    /\ UNCHANGED <<nb, err, fs, stdout, plots, i, mlpVars, cnnVars, fwdVars>>

\* The data sets are in memory, the loaders and `classes` are defined.
DatasetsLoaded(message) ==
    /\ \E v \in 0..MaxVariant : trainset' = TrainSet(v) /\ testset' = TestSet(v)
    /\ stdout' = stdout \o << <<message>>, <<"Files already downloaded and verified">> >>
    /\ trace' = Log(trace, "acquire")
    /\ pc' = After("c_datasets")
    /\ UNCHANGED <<nb, err, plots, i, mlpVars, net, it, dataiter, images, labels,
                   trainVars, evalVars, fwdVars>>

\* trainset = CIFAR10(root='./', train=True, download=True, ...); trainloader = ...;
\* testset = CIFAR10(root='./', train=False, download=True, ...); testloader = ...
C_Datasets ==
    /\ Running /\ pc = "c_datasets"
    /\ \/ \* the files are there and verified: nothing is fetched
          /\ CifarFiles \subseteq fs
          /\ fs' = fs
          /\ DatasetsLoaded("Files already downloaded and verified")
       \/ \* the archive is downloaded into root and extracted
          /\ ~(CifarFiles \subseteq fs)
          /\ fs' = fs \cup CifarFiles
          /\ DatasetsLoaded("Downloading cifar-10-python.tar.gz")
       \/ \* the download fails
          /\ ~(CifarFiles \subseteq fs)
          /\ Raise("URLError")

\* def imshow(img): ...
C_ImshowDef ==
    /\ Running /\ pc = "c_imshow_def"
    /\ pc' = After("c_imshow_def")
    /\ UNCHANGED <<nb, err, fs, stdout, plots, trace, i, mlpVars, cnnVars, fwdVars>>

\* dataiter = iter(trainloader); images, labels = dataiter.next(); print sizes
C_DataIter ==
    /\ Running /\ pc = "c_dataiter"
    /\ \E t \in TrainIters :
         /\ images' = IterBatch(t)[1]
         /\ labels' = IterBatch(t)[2]
         /\ dataiter' = IterFirst(t)
    /\ stdout' = stdout \o << <<"Size of the image batch", <<Len(images')>> \o ImageShape>>,
                              <<"Size of the labels batch", <<Len(labels')>> >> >>
    /\ trace' = Log(trace, "acquire")
    /\ pc' = After("c_dataiter")
    /\ UNCHANGED <<nb, err, fs, plots, i, mlpVars, net, it, trainset, testset,
                   trainVars, evalVars, fwdVars>>

\* imshow(make_grid(images, pad_value=1)); print the four class names
C_ShowBatch ==
    /\ Running /\ pc = "c_show_batch"
    /\ IF Len(labels) < 4
       THEN Raise("IndexError")
       ELSE /\ plots' = Append(plots, <<"imshow", images>>)
            /\ stdout' = Append(stdout, <<"classes", labels>>)
            /\ trace' = Log(trace, "plot")
            /\ pc' = After("c_show_batch")
            /\ UNCHANGED <<nb, err, fs, i, mlpVars, cnnVars, fwdVars>>

\* criterion = nn.CrossEntropyLoss()
C_Criterion ==
    /\ Running /\ pc = "c_criterion"
    /\ criterion' = "CrossEntropyLoss"
    /\ trace' = Log(trace, "configure")
    /\ pc' = After("c_criterion")
    /\ UNCHANGED <<nb, err, fs, stdout, plots, i, mlpVars, net, it, dataVars,
                   optimizer, epoch, running_loss, data, inputs, loss, evalVars, fwdVars>>

\* optimizer = optim.SGD(net.parameters(), lr=0.001, momentum=0.9)
C_Optimizer ==
    /\ Running /\ pc = "c_optimizer"
    /\ IF net.defined
       THEN /\ optimizer' = [kind |-> "SGD", steps |-> 0]
            /\ trace' = Log(trace, "configure")
            /\ pc' = After("c_optimizer")
            /\ UNCHANGED <<nb, err, fs, stdout, plots, i, mlpVars, net, it, dataVars,
                           criterion, epoch, running_loss, data, inputs, loss, evalVars,
                           fwdVars>>
       ELSE Raise("NameError")

----------------------------------------------------------------------------
(* CNN notebook: the training cell *)

\* for epoch in range(2): running_loss = 0.0, then the inner loop's iterator
T_Epoch ==
    /\ Running /\ pc = "c_train"
    /\ IF epoch + 1 < EpochRange
       THEN /\ epoch' = epoch + 1
            /\ running_loss' = 0
            /\ \E t \in TrainIters : it' = t
            /\ trace' = Log(trace, "fit")
            /\ pc' = "t_next"
            /\ UNCHANGED <<nb, err, fs, stdout, plots, i, mlpVars, net, dataVars,
                           criterion, optimizer, data, inputs, loss, evalVars, fwdVars>>
       ELSE /\ pc' = "t_finished"
            /\ UNCHANGED <<nb, err, fs, stdout, plots, trace, i, mlpVars, cnnVars, fwdVars>>

\* for i, data in enumerate(trainloader, 0)
T_Next ==
    /\ Running /\ pc = "t_next"
    /\ IF IterHasNext(it)
       THEN /\ IterCanTake(it)
            /\ i' = it.pos
            /\ data' = IterBatch(it)
            /\ it' = IterAdvance(it)
            /\ pc' = TrainBody[1]
            /\ UNCHANGED <<nb, err, fs, stdout, plots, trace, mlpVars, net, dataVars,
                           criterion, optimizer, epoch, running_loss, inputs, loss,
                           evalVars, fwdVars>>
       ELSE /\ pc' = "c_train"
            /\ UNCHANGED <<nb, err, fs, stdout, plots, trace, i, mlpVars, cnnVars, fwdVars>>

\* inputs, labels = data
T_Unpack ==
    /\ Running /\ pc = "t_unpack"
    /\ inputs' = data[1]
    /\ labels' = data[2]
    /\ pc' = BodyAfter("t_unpack")
    /\ UNCHANGED <<nb, err, fs, stdout, plots, trace, i, mlpVars, net, it, trainset,
                   testset, dataiter, images, criterion, optimizer, epoch, running_loss,
                   data, loss, evalVars, fwdVars>>

\* optimizer.zero_grad()
T_ZeroGrad ==
    /\ Running /\ pc = "t_zero_grad"
    /\ net' = [net EXCEPT !.grad = 0]
    /\ pc' = BodyAfter("t_zero_grad")
    /\ UNCHANGED <<nb, err, fs, stdout, plots, trace, i, mlpVars, it, dataVars,
                   trainVars, evalVars, fwdVars>>

\* outputs = net(inputs)
T_Forward ==
    /\ Running /\ pc = "t_forward"
    /\ IF forward(<<Len(inputs)>> \o ImageShape) = <<>>
       THEN Raise("RuntimeError")
       ELSE /\ outputs' = NetCall(net.w, inputs)
            /\ pc' = BodyAfter("t_forward")
            /\ UNCHANGED <<nb, err, fs, stdout, plots, trace, i, mlpVars, net, it,
                           dataVars, trainVars, predicted, correct, total, class_correct,
                           class_total, net_intermediate, fwdVars>>

\* loss = criterion(outputs, labels)
T_Loss ==
    /\ Running /\ pc = "t_loss"
    /\ IF Len(outputs) # Len(labels)
       THEN Raise("ValueError")
       ELSE /\ loss' = CrossEntropyLoss(outputs, labels)
            /\ pc' = BodyAfter("t_loss")
            /\ UNCHANGED <<nb, err, fs, stdout, plots, trace, i, mlpVars, net, it,
                           dataVars, criterion, optimizer, epoch, running_loss, data,
                           inputs, evalVars, fwdVars>>

\* loss.backward(): the gradient of this loss is added to the parameters' .grad
T_Backward ==
    /\ Running /\ pc = "t_backward"
    /\ net' = [net EXCEPT !.grad = net.grad + loss]
    /\ pc' = BodyAfter("t_backward")
    /\ UNCHANGED <<nb, err, fs, stdout, plots, trace, i, mlpVars, it, dataVars,
                   trainVars, evalVars, fwdVars>>

\* optimizer.step(): the weights move by the gradient
T_Step ==
    /\ Running /\ pc = "t_step"
    /\ net' = [net EXCEPT !.w = net.w + net.grad]
    /\ optimizer' = [optimizer EXCEPT !.steps = optimizer.steps + 1]
    /\ pc' = BodyAfter("t_step")
    /\ UNCHANGED <<nb, err, fs, stdout, plots, trace, i, mlpVars, it, dataVars,
                   criterion, epoch, running_loss, data, inputs, loss, evalVars, fwdVars>>

\* running_loss += loss.item()
T_Accumulate ==
    /\ Running /\ pc = "t_accumulate"
    /\ running_loss' = running_loss + loss
    /\ pc' = BodyAfter("t_accumulate")
    /\ UNCHANGED <<nb, err, fs, stdout, plots, trace, i, mlpVars, net, it, dataVars,
                   criterion, optimizer, epoch, data, inputs, loss, evalVars, fwdVars>>

T_Print_noReset ==
    /\ Running /\ pc = "t_print"
    /\ IF i % PrintEvery = PrintEvery - 1
       THEN stdout' = Append(stdout, <<"loss", epoch + 1, i + 1, running_loss, PrintEvery>>)
       ELSE UNCHANGED stdout
    /\ pc' = BodyAfter("t_print")
    /\ UNCHANGED <<nb, err, fs, plots, trace, i, mlpVars, net, it, dataVars,
                   criterion, optimizer, epoch, running_loss, data, inputs, loss,
                   evalVars, fwdVars>>

\* if i % 2000 == 1999: print('[%d, %5d] loss: %.3f' % ...); running_loss = 0.0
T_Print ==
    /\ Running /\ pc = "t_print"
    /\ IF i % PrintEvery = PrintEvery - 1
       THEN /\ stdout' = Append(stdout, <<"loss", epoch + 1, i + 1, running_loss, PrintEvery>>)
            /\ running_loss' = 0
       ELSE UNCHANGED <<stdout, running_loss>>
    /\ pc' = BodyAfter("t_print")
    /\ UNCHANGED <<nb, err, fs, plots, trace, i, mlpVars, net, it, dataVars,
                   criterion, optimizer, epoch, data, inputs, loss, evalVars, fwdVars>>

\* print('Finished Training')
T_Finished ==
    /\ Running /\ pc = "t_finished"
    /\ stdout' = Append(stdout, <<"Finished Training">>)
    /\ pc' = After("c_train")
    /\ UNCHANGED <<nb, err, fs, plots, trace, i, mlpVars, cnnVars, fwdVars>>

----------------------------------------------------------------------------
(* CNN notebook: evaluation *)

\* dataiter = iter(testloader); images, labels = dataiter.next();
\* imshow(make_grid(images)); print the ground truth
TestBatchShown(cell) ==
    /\ Running /\ pc = cell
    /\ images' = IterBatch(TestIter)[1]
    /\ labels' = IterBatch(TestIter)[2]
    /\ dataiter' = IterFirst(TestIter)
    /\ plots' = Append(plots, <<"imshow", images'>>)
    /\ stdout' = Append(stdout, <<"GroundTruth", labels'>>)
    /\ trace' = Log(Log(trace, "acquire"), "plot")
    /\ pc' = After(cell)
    /\ UNCHANGED <<nb, err, fs, i, mlpVars, net, it, trainset, testset, trainVars,
                   evalVars, fwdVars>>

C_TestBatch == TestBatchShown("c_test_batch")

\* outputs = net(images); print the transposed outputs
C_Outputs ==
    /\ Running /\ pc = "c_outputs"
    /\ IF forward(<<Len(images)>> \o ImageShape) = <<>>
       THEN Raise("RuntimeError")
       ELSE /\ outputs' = NetCall(net.w, images)
            /\ stdout' = Append(stdout, <<"Raw network output:", outputs'>>)
            /\ trace' = Log(trace, "predict")
            /\ pc' = After("c_outputs")
            /\ UNCHANGED <<nb, err, fs, plots, i, mlpVars, net, it, dataVars, trainVars,
                           predicted, correct, total, class_correct, class_total,
                           net_intermediate, fwdVars>>

\* _, predicted = torch.max(outputs, 1); print ground truth and prediction
C_Predicted ==
    /\ Running /\ pc = "c_predicted"
    /\ predicted' = [k \in 1..Len(outputs) |-> torch_max(outputs[k])]
    /\ stdout' = stdout \o << <<"Ground Truth:", labels>>, <<"Predict:", predicted'>> >>
    /\ trace' = Log(trace, "predict")
    /\ pc' = After("c_predicted")
    /\ UNCHANGED <<nb, err, fs, plots, i, mlpVars, net, it, dataVars, trainVars,
                   outputs, correct, total, class_correct, class_total,
                   net_intermediate, fwdVars>>

\* correct = 0; total = 0; with torch.no_grad(): for data in testloader
C_Eval ==
    /\ Running /\ pc = "c_eval"
    /\ correct' = 0
    /\ total' = 0
    /\ it' = TestIter
    /\ trace' = Log(trace, "predict")
    /\ pc' = "e_loop"
    /\ UNCHANGED <<nb, err, fs, stdout, plots, i, mlpVars, net, dataVars, trainVars,
                   outputs, predicted, class_correct, class_total, net_intermediate,
                   fwdVars>>

\* One iteration: images, labels = data; outputs = net(images);
\* _, predicted = torch.max(outputs.data, 1); total += labels.size(0);
\* correct += (predicted == labels).sum().item()
E_Batch ==
    /\ Running /\ pc = "e_loop" /\ IterHasNext(it) /\ IterCanTake(it)
    /\ IF forward(<<Len(IterBatch(it)[1])>> \o ImageShape) = <<>>
       THEN Raise("RuntimeError")
       ELSE /\ data' = IterBatch(it)
            /\ it' = IterAdvance(it)
            /\ images' = data'[1]
            /\ labels' = data'[2]
            /\ outputs' = NetCall(net.w, images')
            /\ predicted' = [k \in 1..Len(outputs') |-> torch_max(outputs'[k])]
            /\ total' = total + Len(labels')
            /\ correct' = correct + CountEqual(predicted', labels')
            /\ UNCHANGED <<nb, pc, err, fs, stdout, plots, trace, i, mlpVars, net,
                           trainset, testset, dataiter, criterion, optimizer, epoch,
                           running_loss, inputs, loss, class_correct, class_total,
                           net_intermediate, fwdVars>>

\* print('Accuracy of the network on the 10000 test images: %d %%' % (100 * correct / total))
E_Print ==
    /\ Running /\ pc = "e_loop" /\ ~IterHasNext(it)
    /\ IF total = 0
       THEN Raise("ZeroDivisionError")
       ELSE /\ stdout' = Append(stdout, <<"Accuracy of the network on the 10000 test images",
                                          (100 * correct) \div total>>)
            /\ pc' = After("c_eval")
            /\ UNCHANGED <<nb, err, fs, plots, trace, i, mlpVars, cnnVars, fwdVars>>

\* class_correct = list(0. for i in range(10)); class_total = likewise;
\* with torch.no_grad(): for data in testloader
C_ClassEval ==
    /\ Running /\ pc = "c_class_eval"
    /\ class_correct' = [c \in 1..NumClasses |-> 0]
    /\ class_total' = [c \in 1..NumClasses |-> 0]
    /\ it' = TestIter
    /\ i' = NumClasses - 1
    /\ trace' = Log(trace, "predict")
    /\ pc' = "k_loop"
    /\ UNCHANGED <<nb, err, fs, stdout, plots, mlpVars, net, dataVars, trainVars,
                   outputs, predicted, correct, total, net_intermediate, fwdVars>>

\* class_correct / class_total after `for i in range(n)` over one batch:
\* label = labels[i]; class_correct[label] += c[i].item(); class_total[label] += 1
RECURSIVE CountByClass(_, _, _, _)
CountByClass(cnt, l, add, n) ==
    IF n = 0 THEN cnt
    ELSE LET prev == CountByClass(cnt, l, add, n - 1)
         IN  [prev EXCEPT ![l[n] + 1] = prev[l[n] + 1] + add[n]]

InnerRange_three == ClassLoopRange - 1

\* for i in range(4)
InnerRange == ClassLoopRange

\* One iteration of the class-by-class loop.
K_Batch ==
    /\ Running /\ pc = "k_loop" /\ IterHasNext(it) /\ IterCanTake(it)
    /\ IF forward(<<Len(IterBatch(it)[1])>> \o ImageShape) = <<>>
       THEN Raise("RuntimeError")
       ELSE IF Len(IterBatch(it)[2]) < InnerRange
       THEN Raise("IndexError")
       ELSE /\ data' = IterBatch(it)
            /\ it' = IterAdvance(it)
            /\ images' = data'[1]
            /\ labels' = data'[2]
            /\ outputs' = NetCall(net.w, images')
            /\ predicted' = [k \in 1..Len(outputs') |-> torch_max(outputs'[k])]
            /\ LET c == [k \in 1..Len(labels') |-> IF predicted'[k] = labels'[k] THEN 1 ELSE 0]
                   one == [k \in 1..Len(labels') |-> 1]
               IN  /\ class_correct' = CountByClass(class_correct, labels', c, InnerRange)
                   /\ class_total' = CountByClass(class_total, labels', one, InnerRange)
            /\ i' = InnerRange - 1
            /\ UNCHANGED <<nb, pc, err, fs, stdout, plots, trace, mlpVars, net,
                           trainset, testset, dataiter, criterion, optimizer, epoch,
                           running_loss, inputs, loss, correct, total,
                           net_intermediate, fwdVars>>

\* The loop is exhausted: on to `for i in range(10)`.
K_EndLoop ==
    /\ Running /\ pc = "k_loop" /\ ~IterHasNext(it)
    /\ i' = 0
    /\ pc' = "k_print"
    /\ UNCHANGED <<nb, err, fs, stdout, plots, trace, mlpVars, cnnVars, fwdVars>>

\* print('Accuracy of %5s : %2d %%' % (classes[i], 100 * class_correct[i] / class_total[i]))
K_Print ==
    /\ Running /\ pc = "k_print"
    /\ IF class_total[i + 1] = 0
       THEN Raise("ZeroDivisionError")
       ELSE /\ stdout' = Append(stdout, <<"Accuracy of", i,
                                          (100 * class_correct[i + 1]) \div class_total[i + 1]>>)
            /\ IF i + 1 < NumClasses
               THEN i' = i + 1 /\ pc' = pc
               ELSE i' = i /\ pc' = After("c_class_eval")
            /\ UNCHANGED <<nb, err, fs, plots, trace, mlpVars, cnnVars, fwdVars>>

----------------------------------------------------------------------------
(* CNN notebook: filter outputs *)

\* net_intermediate = nn.Sequential(*list(net.children())[0:1]); net_intermediate.eval()
C_Intermediate ==
    /\ Running /\ pc = "c_intermediate"
    /\ net_intermediate' = << "conv1" >>
    /\ stdout' = Append(stdout, <<"Sequential", net_intermediate'>>)
    /\ trace' = Log(trace, "configure")
    /\ pc' = After("c_intermediate")
    /\ UNCHANGED <<nb, err, fs, plots, i, mlpVars, net, it, dataVars, trainVars,
                   outputs, predicted, correct, total, class_correct, class_total, fwdVars>>

C_TestBatch2 == TestBatchShown("c_test_batch2")

\* image_outputs = net_intermediate(images); a grid of nImages x (nFilters + 1) axes
C_Filters ==
    /\ Running /\ pc = "c_filters"
    /\ LET shape == ApplyOps(net_intermediate, <<Len(images)>> \o ImageShape)
       IN  IF shape = <<>>
           THEN Raise("RuntimeError")
           ELSE /\ plots' = Append(plots, <<"filters", shape[1], shape[2] + 1>>)
                /\ trace' = Log(Log(trace, "predict"), "plot")
                /\ pc' = After("c_filters")
                /\ UNCHANGED <<nb, err, fs, stdout, i, mlpVars, cnnVars, fwdVars>>

\* A worker process of the loop's iterator loads a batch and puts it on the
\* queue, while the notebook is wherever it is.
W_LoadLoop ==
    /\ Running /\ WorkersCanLoad(it)
    /\ it' = IterLoaded(it)
    /\ UNCHANGED <<commonVars, mlpVars, net, dataVars, trainVars, evalVars, fwdVars>>

\* The same for the iterator the notebook keeps in `dataiter`.
W_LoadDataiter ==
    /\ Running /\ WorkersCanLoad(dataiter)
    /\ dataiter' = IterLoaded(dataiter)
    /\ UNCHANGED <<commonVars, mlpVars, net, it, trainset, testset, images, labels,
                   trainVars, evalVars, fwdVars>>

CNNNext ==
    \/ C_Imports \/ C_Net \/ C_NamedParams \/ C_ParamSum \/ C_Numel \/ C_PrintParams
    \/ C_Transform \/ C_Datasets \/ C_ImshowDef \/ C_DataIter \/ C_ShowBatch
    \/ C_Criterion \/ C_Optimizer
    \/ T_Epoch \/ T_Next \/ T_Unpack \/ T_ZeroGrad \/ T_Forward \/ T_Loss
    \/ T_Backward \/ T_Step \/ T_Accumulate \/ T_Print \/ T_Finished
    \/ C_TestBatch \/ C_Outputs \/ C_Predicted \/ C_Eval \/ E_Batch \/ E_Print
    \/ C_ClassEval \/ K_Batch \/ K_EndLoop \/ K_Print
    \/ C_Intermediate \/ C_TestBatch2 \/ C_Filters
    \/ W_LoadLoop \/ W_LoadDataiter

----------------------------------------------------------------------------
(* The specification *)

\* The working directory before the run: data.csv and the CIFAR-10 files
\* may or may not be there.
InitialFiles ==
    IF nb = "mlp" THEN { {}, {"data.csv"} }
    ELSE IF nb = "cnn" THEN { {}, CifarFiles }
    ELSE { {} }

Init ==
    /\ nb \in {"mlp", "cnn", "net"}
    /\ pc = IF nb = "mlp" THEN MLPCells[1] ELSE IF nb = "cnn" THEN CNNCells[1] ELSE "forward"
    /\ err = "none"
    /\ fs \in InitialFiles
    /\ stdout = <<>> /\ plots = <<>> /\ trace = <<>> /\ i = 0
    /\ df = <<>> /\ X = <<>> /\ y = <<>> /\ perm = <<>>
    /\ X_train = <<>> /\ X_test = <<>> /\ y_train = <<>> /\ y_test = <<>>
    /\ scaler = [fitted |-> FALSE, n |-> 0, sum |-> <<0, 0>>, den2 |-> <<1, 1>>]
    /\ clf = [ solver |-> "", max_iter |-> 0, hidden_layer_sizes |-> 0,
               random_state |-> 0, fitted |-> FALSE, w |-> <<0, 0, 0>> ]
    /\ x_predict = <<>> /\ auc = <<0, 1>>
    /\ net = [defined |-> FALSE, w |-> 0, grad |-> 0]
    /\ it = NoIter
    /\ trainset = NoDataset /\ testset = NoDataset
    /\ dataiter = NoIter /\ images = <<>> /\ labels = <<>>
    /\ criterion = "" /\ optimizer = [kind |-> "", steps |-> 0]
    /\ epoch = -1 /\ running_loss = 0 /\ data = << <<>>, <<>> >>
    /\ inputs = <<>> /\ loss = 0
    /\ outputs = <<>> /\ predicted = <<>> /\ correct = 0 /\ total = 0
    /\ class_correct = <<>> /\ class_total = <<>> /\ net_intermediate = <<>>
    /\ x_in \in (IF nb = "net" THEN InputShapes ELSE { <<>> })
    /\ x = x_in
    /\ layer = 0

Next == MLPNext \/ CNNNext \/ FwdNext

Spec == Init /\ [][Next]_vars

\* A long data set: whole batches, samples as in TrainSet(0).
LongTrainSet == [train |-> TRUE, len |-> LongTrainBatches * BatchSize, v |-> 0]

\* The kernel as the cells above the training cell leave it when the CIFAR-10
\* files were already in the working directory, the training set is ts and
\* the batch shown was drawn in stored order, its iterator's workers having
\* loaded all they load ahead.
AtTrainingCell(ts) ==
    /\ nb = "cnn" /\ pc = "c_train" /\ err = "none"
    /\ fs = CifarFiles
    /\ trainset = ts /\ testset = TestSet(0)
    /\ dataiter = [loader |-> "train", shift |-> 0, pos |-> 1, ready |-> 1 + NumWorkers]
    /\ images = LoaderBatch(ts, BatchSize, 0, 0)[1]
    /\ labels = LoaderBatch(ts, BatchSize, 0, 0)[2]
    /\ stdout = << <<"Name:", named_parameters>>,
                   <<"Out", HandWrittenSum>>,
                   <<"Total number of trainable parameters", TrainableParameters>>,
                   <<"Parameter", Len(named_parameters)>>,
                   <<"Files already downloaded and verified">>,
                   <<"Files already downloaded and verified">>,
                   <<"Size of the image batch", <<BatchSize>> \o ImageShape>>,
                   <<"Size of the labels batch", <<BatchSize>> >>,
                   <<"classes", labels>> >>
    /\ plots = << <<"imshow", images>> >>
    /\ trace = <<"configure", "acquire", "plot", "configure">>
    /\ i = 0
    /\ df = <<>> /\ X = <<>> /\ y = <<>> /\ perm = <<>>
    /\ X_train = <<>> /\ X_test = <<>> /\ y_train = <<>> /\ y_test = <<>>
    /\ scaler = [fitted |-> FALSE, n |-> 0, sum |-> <<0, 0>>, den2 |-> <<1, 1>>]
    /\ clf = [ solver |-> "", max_iter |-> 0, hidden_layer_sizes |-> 0,
               random_state |-> 0, fitted |-> FALSE, w |-> <<0, 0, 0>> ]
    /\ x_predict = <<>> /\ auc = <<0, 1>>
    /\ net = [defined |-> TRUE, w |-> 0, grad |-> 0]
    /\ it = NoIter
    /\ criterion = "CrossEntropyLoss" /\ optimizer = [kind |-> "SGD", steps |-> 0]
    /\ epoch = -1 /\ running_loss = 0 /\ data = << <<>>, <<>> >>
    /\ inputs = <<>> /\ loss = 0
    /\ outputs = <<>> /\ predicted = <<>> /\ correct = 0 /\ total = 0
    /\ class_correct = <<>> /\ class_total = <<>> /\ net_intermediate = <<>>
    /\ x_in = <<>> /\ x = <<>> /\ layer = 0

\* The training cell, entered with the long data set.
TrainInit == AtTrainingCell(LongTrainSet)

TrainNext ==
    \/ T_Epoch \/ T_Next \/ T_Unpack \/ T_ZeroGrad \/ T_Forward \/ T_Loss
    \/ T_Backward \/ T_Step \/ T_Accumulate \/ T_Print \/ T_Finished
    \/ W_LoadLoop

TrainSpec == TrainInit /\ [][TrainNext]_vars

----------------------------------------------------------------------------
(* Properties *)

\* The rows of X that train_test_split put in the training and the test fold.
RawTrain == [k \in 1..(Len(X) - Len(y_test)) |-> X[perm[Len(y_test) + k]]]
RawTest == [k \in 1..Len(y_test) |-> X[perm[k]]]

\* n^2 times the variance of feature j over the rows D (n^2 where it is zero).
SquaredSpread(D, j) ==
    LET n == Len(D)
        s1 == SeqSum([k \in 1..n |-> D[k][j]])
        s2 == SeqSum([k \in 1..n |-> D[k][j] * D[k][j]])
    IN  IF n * s2 - s1 * s1 = 0 THEN n * n ELSE n * s2 - s1 * s1

\* C1: once the scaler is fitted, its mean and standard deviation are those of
\* the training fold alone, and X_train and X_test are both that fold's rows
\* shifted and scaled by these same statistics; no test row enters them.
C1_ScalingFromTrainingOnly ==
    scaler.fitted =>
        /\ scaler.n = Len(RawTrain)
        /\ \A j \in 1..2 :
             /\ scaler.sum[j] = SeqSum([k \in 1..Len(RawTrain) |-> RawTrain[k][j]])
             /\ scaler.den2[j] = SquaredSpread(RawTrain, j)
        /\ Len(X_train) = Len(RawTrain) /\ Len(X_test) = Len(RawTest)
        /\ \A k \in 1..Len(RawTrain) : \A j \in 1..2 :
             X_train[k][j] = << scaler.n * RawTrain[k][j] - scaler.sum[j], scaler.den2[j] >>
        /\ \A k \in 1..Len(RawTest) : \A j \in 1..2 :
             X_test[k][j] = << scaler.n * RawTest[k][j] - scaler.sum[j], scaler.den2[j] >>

\* The scaler is fitted, and the statistics of the whole data set would have
\* been different from the ones it holds.
C1_Witness ==
    /\ scaler.fitted /\ pc = "m_clf" /\ Len(X_test) >= NPrint
    /\ \A j \in 1..2 :
         Len(X) * scaler.sum[j] # scaler.n * SeqSum([k \in 1..Len(X) |-> X[k][j]])

\* The rows of the probability table printed so far.
PrintedRows == SelectSeq(stdout, LAMBDA e : e[1] = "row")

\* C7: every printed row shows the probabilities of its test sample, and its
\* predicted class Pc is 0 when P1 > P2, 1 when P2 > P1, and 0 on a tie.
C7_PredictedClassIsArgmax ==
    nb = "mlp" =>
        /\ Len(PrintedRows) <= NPrint
        /\ \A k \in 1..Len(PrintedRows) :
             LET P1 == PrintedRows[k][2]
                 P2 == PrintedRows[k][3]
                 Pc == PrintedRows[k][4]
             IN  /\ P1 = x_predict[k][1] /\ P2 = x_predict[k][2]
                 /\ PrintedRows[k][5] = y_test[k]
                 /\ P1 > P2 => Pc = 0
                 /\ P2 > P1 => Pc = 1
                 /\ P1 = P2 => Pc = 0

\* All ten rows are printed, some with P1 above P2 and some with P2 above P1.
C7_Witness ==
    /\ pc = "m_roc" /\ Len(PrintedRows) = NPrint
    /\ \E k \in 1..NPrint : PrintedRows[k][2] > PrintedRows[k][3]
    /\ \E k \in 1..NPrint : PrintedRows[k][3] > PrintedRows[k][2]

\* The seven steps of one batch, as the notebook lists them.
BatchSteps ==
    << "t_unpack", "t_zero_grad", "t_forward", "t_loss", "t_backward", "t_step",
       "t_accumulate" >>

\* C2: within a batch the steps follow each other in the listed order: from
\* the loop header control enters step 1, from step k it goes to step k+1 and
\* nowhere else, and each step does its own work (the gradient is zeroed at
\* step 2, the weights move by the gradient of this batch's loss at step 6,
\* the loss is added to running_loss at step 7).
C2_BatchStepsInOrder ==
    [][ /\ (pc = "t_next" /\ pc' \notin {"t_next", "c_train"}) => pc' = BatchSteps[1]
        /\ \A k \in 1..(Len(BatchSteps) - 1) :
             (pc = BatchSteps[k] /\ pc' # pc) => pc' = BatchSteps[k + 1]
        /\ (pc = "t_accumulate" /\ pc' # pc) => pc' = "t_print"
        /\ (pc = "t_print" /\ pc' # pc) => pc' = "t_next"
        /\ (pc = "t_zero_grad" /\ pc' # pc) => net'.grad = 0
        /\ (pc = "t_forward" /\ pc' # pc) => net.grad = 0
        /\ (pc = "t_step" /\ pc' # pc) =>
              /\ net.grad = loss
              /\ net'.w = net.w + loss
              /\ optimizer'.steps = optimizer.steps + 1
        /\ (pc # "t_step") => optimizer'.steps = optimizer.steps \/ pc = "c_optimizer"
        /\ (pc = "t_accumulate" /\ pc' # pc) => running_loss' = running_loss + loss
      ]_vars

\* The last batch of the second epoch has gone through all seven steps.
C2_Witness ==
    /\ pc = "t_print" /\ epoch = 1 /\ i = NumTrainBatches - 1
    /\ optimizer.steps = 2 * NumTrainBatches /\ net.w > 0

\* How often 'Finished Training' has been printed.
FinishedCount == Len(SelectSeq(stdout, LAMBDA e : e[1] = "Finished Training"))

InTrainingBody ==
    pc \in { "t_unpack", "t_zero_grad", "t_forward", "t_loss", "t_backward", "t_step",
             "t_accumulate", "t_print" }

\* C3 (counts): while training runs, optimizer.step() has been called once for
\* every batch drawn so far, B per finished epoch; 'Finished Training' is
\* printed at most once, and once it is printed exactly two epochs of B
\* batches each have been stepped through.
C3_Counts ==
    /\ (50000 + BatchSize - 1) \div BatchSize = 12500
    /\ FinishedCount <= 1
    /\ (nb = "cnn" /\ trainset # NoDataset) =>
         LET B == NumTrainBatches
         IN  /\ DatasetLen(trainset) = B * BatchSize
             /\ epoch \in -1..1
             /\ InTrainingBody =>
                  /\ i \in 0..(B - 1)
                  /\ optimizer.steps =
                       epoch * B + i + (IF pc \in {"t_accumulate", "t_print"} THEN 1 ELSE 0)
             /\ pc = "t_next" => optimizer.steps = epoch * B + it.pos
             /\ FinishedCount = 1 => (optimizer.steps = 2 * B /\ epoch = 1)
             /\ FinishedCount = 0 => optimizer.steps <= 2 * B

\* How far the training cell has come: epochs started, batches drawn, and the
\* statement of the body that is next.
TrainProgress ==
    LET K == 10 * NumTrainBatches + 2
        j == IF InTrainingBody
             THEN CHOOSE k \in 1..8 :
                    pc = << "t_unpack", "t_zero_grad", "t_forward", "t_loss", "t_backward",
                            "t_step", "t_accumulate", "t_print" >>[k]
             ELSE 0
    IN  CASE pc = "c_train"    -> (epoch + 1) * K
          [] pc = "t_next"     -> epoch * K + 1 + 10 * it.pos
          [] InTrainingBody    -> epoch * K + 1 + 10 * (it.pos - 1) + j
          [] pc = "t_finished" -> 2 * K + 1
          [] OTHER             -> 2 * K + 2

InTrainingCell == pc \in {"c_train", "t_next", "t_finished"} \/ InTrainingBody

\* Batches the loaders' workers have loaded since training began: those of
\* the finished passes, of the current pass, and of the iterator in `dataiter`.
LoadsSoFar ==
    (IF epoch < 0 THEN 0 ELSE epoch * NumTrainBatches + it.ready) + dataiter.ready

\* C3: the counts above hold throughout, and the training cell ends: every
\* step taken while it runs either moves it forward through at most two
\* epochs of B batches, eight statements each, or is one of the boundedly many
\* batch loads of a worker; a batch the loop waits for can be loaded; and the
\* cell is left only after 'Finished Training' is printed.
C3_TwoEpochsThenFinished ==
    /\ []C3_Counts
    /\ []((pc = "t_next" /\ err = "none" /\ IterHasNext(it) /\ ~IterCanTake(it))
            => WorkersCanLoad(it))
    /\ [][ (InTrainingCell /\ err' = "none") =>
              /\ TrainProgress' >= TrainProgress
              /\ LoadsSoFar' >= LoadsSoFar
              /\ TrainProgress' + LoadsSoFar' > TrainProgress + LoadsSoFar
              /\ TrainProgress' <= 2 * (10 * NumTrainBatches + 2) + 2
              /\ LoadsSoFar' <= 2 * NumTrainBatches + 1 + NumWorkers
              /\ (pc' # "c_test_batch") => InTrainingCell'
              /\ (pc' = "c_test_batch") => (pc = "t_finished" /\ FinishedCount' = 1)
         ]_vars

\* Training has finished after 2 * B steps.
C3_Witness ==
    /\ pc = "c_test_batch" /\ FinishedCount = 1
    /\ optimizer.steps = 2 * NumTrainBatches

\* C4 as stated: no step of either notebook changes the files on disk.
C4_NoFileWritten == [][fs' = fs]_vars

\* C4 as amended: the only step that changes the files on disk is the CNN
\* notebook's data-set cell, which adds the CIFAR-10 archive and its extracted
\* directory under './' when they are not there yet; every other step of both
\* notebooks leaves the files alone and shows its results as prints and plots.
C4_OnlyTheDownloadWrites ==
    [][ /\ fs' # fs =>
             /\ nb = "cnn" /\ pc = "c_datasets"
             /\ ~(CifarFiles \subseteq fs)
             /\ fs' = fs \cup CifarFiles
        /\ (stdout' # stdout \/ plots' # plots) => (fs' = fs \/ pc = "c_datasets")
      ]_vars

\* The data-set cell has downloaded the files into a directory that lacked them.
C4_Witness ==
    /\ nb = "cnn" /\ pc = "c_imshow_def" /\ fs = CifarFiles
    /\ \E k \in 1..Len(stdout) : stdout[k][1] = "Downloading cifar-10-python.tar.gz"

\* The position of a stage in the order the spec gives.
StageRank(st) ==
    CASE st = "acquire" -> 1
      [] st = "configure" -> 2
      [] st = "fit" -> 3
      [] st = "predict" -> 4
      [] st = "plot" -> 5

\* C5 as stated: no step of an earlier stage runs after a step of a later one.
C5_StagesInSpecOrder ==
    \A j, k \in 1..Len(trace) : j < k => StageRank(trace[j]) <= StageRank(trace[k])

ExpectedStages ==
    IF nb = "mlp"
    THEN << "acquire", "configure", "fit", "predict", "plot", "predict", "plot" >>
    ELSE << "configure", "acquire", "plot", "configure", "fit", "acquire", "plot",
            "predict", "configure", "acquire", "plot", "predict", "plot" >>

\* C5 as amended: each notebook is one top-to-bottom pass whose stages follow a
\* fixed sequence, but not the spec's: the MLP notebook acquires, configures,
\* fits, predicts and plots the ROC curve, then predicts on the mesh and plots
\* again; the CNN notebook instantiates the network before it acquires data,
\* plots a batch before training, configures loss and optimizer, trains, then
\* alternates acquiring a test batch, plotting and predicting.
C5_StagesAsCoded ==
    nb \in {"mlp", "cnn"} =>
        /\ Len(trace) <= Len(ExpectedStages)
        /\ trace = SubSeq(ExpectedStages, 1, Len(trace))
        /\ pc = "done" => trace = ExpectedStages

\* The CNN notebook has run to its end.
C5_Witness == nb = "cnn" /\ pc = "done" /\ Len(trace) = 13 /\ err = "none"

\* C6: an exception is never handled: the step that raises changes nothing
\* but the error (the rest of the cell does not run, no partial result is
\* stored), and after it no statement runs again, neither the failed one nor
\* a later one.
C6_ErrorsPropagate ==
    [][ /\ err # "none" => UNCHANGED vars
        /\ err' # err =>
             /\ err = "none"
             /\ UNCHANGED <<nb, pc, fs, stdout, plots, trace, i, mlpVars, cnnVars, fwdVars>>
      ]_vars

\* read_csv has failed on a missing data.csv: df is still unset.
C6_Witness ==
    /\ nb = "mlp" /\ err = "FileNotFoundError" /\ pc = "m_load"
    /\ df = <<>> /\ stdout = <<>>

\* The class the network predicts for a test sample: the lowest class whose
\* output is not exceeded.
PredictedClass(sample) ==
    LET o == NetOutputs(net.w, sample.feat)
    IN  CHOOSE c \in 0..(NumClasses - 1) :
          /\ \A d \in 0..(NumClasses - 1) : o[d + 1] <= o[c + 1]
          /\ \A d \in 0..(c - 1) : o[d + 1] < o[c + 1]

AfterEvalLoop ==
    pc \in { "c_class_eval", "k_loop", "k_print", "c_intermediate", "c_test_batch2",
             "c_filters", "done" }

\* The test samples the whole-test-set loop has processed.
EvalProcessed ==
    IF pc = "e_loop" THEN 1..(it.pos * BatchSize)
    ELSE IF nb = "cnn" /\ AfterEvalLoop THEN 1..DatasetLen(testset)
    ELSE {}

\* C8: after every iteration of the whole-test-set loop, total is the number
\* of samples processed, correct is the number of them predicted as their
\* label, 0 <= correct <= total, and when the loop has ended total is the
\* size of the test set.
C8_CorrectAndTotal ==
    (pc = "e_loop" \/ (nb = "cnn" /\ AfterEvalLoop)) =>
        /\ EvalProcessed \subseteq 1..DatasetLen(testset)
        /\ total = Cardinality(EvalProcessed)
        /\ correct = Cardinality({k \in EvalProcessed :
                                    PredictedClass(GetItem(testset, k)) = GetItem(testset, k).label})
        /\ 0 <= correct /\ correct <= total
        /\ (pc # "e_loop" \/ ~IterHasNext(it)) => total = NumTestBatches * BatchSize

\* The loop has ended with some samples right and some wrong.
C8_Witness ==
    /\ pc = "e_loop" /\ it.pos = NumTestBatches
    /\ 0 < correct /\ correct < total

\* C9: after both loops, the class counts add up to the overall counts, and
\* every class holds exactly the samples of that label.
C9_ClassCountsAddUp ==
    (nb = "cnn" /\ pc \in {"k_print", "c_intermediate", "c_test_batch2", "c_filters", "done"}) =>
        /\ SeqSum(class_total) = total
        /\ SeqSum(class_correct) = correct
        /\ \A c \in 0..(NumClasses - 1) :
             /\ class_total[c + 1] =
                  Cardinality({k \in 1..DatasetLen(testset) : GetItem(testset, k).label = c})
             /\ class_correct[c + 1] =
                  Cardinality({k \in 1..DatasetLen(testset) :
                                 /\ GetItem(testset, k).label = c
                                 /\ PredictedClass(GetItem(testset, k)) = c})

\* Both loops are done; the classes differ in size and in how many are right.
C9_Witness ==
    /\ nb = "cnn" /\ pc = "k_print" /\ i = 0
    /\ 0 < correct /\ correct < total
    /\ \E c, d \in 1..NumClasses : class_total[c] # class_total[d]
    /\ \E c \in 1..NumClasses : class_correct[c] < class_total[c]

\* The sizes the notebook lists for a batch of n images of 32x32x3, after
\* 0, 1, ..., 12 operations of forward().
ListedSizes(n) ==
    << << n, 3, 32, 32 >>,
       << n, 6, 28, 28 >>, << n, 6, 28, 28 >>, << n, 6, 14, 14 >>,
       << n, 16, 10, 10 >>, << n, 16, 10, 10 >>, << n, 16, 5, 5 >>,
       << n, 400 >>,
       << n, 120 >>, << n, 120 >>, << n, 84 >>, << n, 84 >>, << n, 10 >> >>

\* C10: for 32x32x3 images forward() raises nothing and x has the listed size
\* after every operation (so every layer is handed the size it declares);
\* whatever the input, the first convolution takes 4 off height and width
\* and ReLU leaves the size alone.
C10_SizesThroughForward ==
    nb = "net" =>
        /\ (x_in[2] = 3 /\ x_in[3] = 32 /\ x_in[4] = 32) =>
             /\ err = "none"
             /\ x = ListedSizes(x_in[1])[layer + 1]
        /\ layer \in {1, 2} =>
             (x[3] = x_in[3] - 4 /\ x[4] = x_in[4] - 4 /\ x[2] = 6)
        /\ layer = 3 => (x[3] = (x_in[3] - 4) \div 2 /\ x[4] = (x_in[4] - 4) \div 2)

\* forward() has returned <<n, 10>> for a batch of 32x32x3 images.
C10_Witness ==
    /\ nb = "net" /\ pc = "done" /\ layer = 12
    /\ x_in = << 2, 3, 32, 32 >> /\ x = << 2, 10 >>

\* The terms of the hand-written sum, as typed in the notebook.
HandWrittenTerms ==
    << 6*3*5*5, 6, 16*6*5*5, 16, 120*400, 120, 84*120, 84, 10*84, 10 >>

\* The layers of Net.__init__ that hold parameters, by attribute name.
ParameterLayers ==
    << <<"conv1", conv1>>, <<"conv2", conv2>>, <<"fc1", fc1>>, <<"fc2", fc2>>,
       <<"fc3", fc3>> >>

\* Weights and biases a layer holds: out*in*k*k and out for a Conv2d, out*in
\* and out for a Linear.
WeightCount(l) ==
    IF l.kind = "Conv2d"
    THEN l.out_channels * l.in_channels * l.kernel_size * l.kernel_size
    ELSE l.out_features * l.in_features
BiasCount(l) == IF l.kind = "Conv2d" THEN l.out_channels ELSE l.out_features

\* What the two counting cells have displayed so far.
DisplayedCounts(tag) == { stdout[k][2] : k \in {j \in 1..Len(stdout) : stdout[j][1] = tag} }

\* C11: the hand-written sum and the sum of numel over the trainable
\* parameters are both 62006; term 2j-1 of the hand-written sum is the weight
\* count and term 2j the bias count of the j-th layer of Net.__init__, these
\* are exactly the tensors named_parameters lists, and whatever the two cells
\* display is that number.
C11_ParameterCount ==
    /\ HandWrittenSum = 62006
    /\ TrainableParameters = 62006
    /\ SeqSum(HandWrittenTerms) = HandWrittenSum
    /\ Len(HandWrittenTerms) = 2 * Len(ParameterLayers)
    /\ Len(named_parameters) = Len(HandWrittenTerms)
    /\ \A j \in 1..Len(ParameterLayers) :
         LET name == ParameterLayers[j][1]
             l == ParameterLayers[j][2]
         IN  /\ named_parameters[2 * j - 1][1] = name \o ".weight"
             /\ named_parameters[2 * j][1] = name \o ".bias"
             /\ Numel(named_parameters[2 * j - 1][2]) = WeightCount(l)
             /\ Numel(named_parameters[2 * j][2]) = BiasCount(l)
             /\ HandWrittenTerms[2 * j - 1] = WeightCount(l)
             /\ HandWrittenTerms[2 * j] = BiasCount(l)
    /\ DisplayedCounts("Out") \subseteq {62006}
    /\ DisplayedCounts("Total number of trainable parameters") \subseteq {62006}

\* Both counting cells have run and displayed their numbers.
C11_Witness ==
    /\ nb = "cnn" /\ pc = "c_print_params" /\ err = "none"
    /\ DisplayedCounts("Out") = {62006}
    /\ DisplayedCounts("Total number of trainable parameters") = {62006}

\* The loss lines printed so far, in order.
LossLines == SelectSeq(stdout, LAMBDA l : l[1] = "loss")

\* Batches of the current pass whose body has run to its end.
BatchesDone ==
    IF epoch < 0 THEN 0
    ELSE IF pc \in {"t_unpack", "t_zero_grad", "t_forward", "t_loss", "t_backward",
                    "t_step", "t_accumulate", "t_print"}
    THEN it.pos - 1 ELSE it.pos

\* <<epoch, batch>> labels of the lines due after `done` batches of a pass.
LabelsOfPass(e, done) == [n \in 1..(done \div 2000) |-> <<e + 1, 2000 * n>>]

\* The loss of batch j of a pass in order r when the weights stand at w.
BatchLoss(w, r, j) ==
    LET b == LoaderBatch(trainset, BatchSize, r, j)
    IN  CrossEntropyLoss(NetCall(w, b[1]), b[2])

\* Batches a..b of a pass in order r, replayed from acc = [w, sum]: every
\* batch adds its loss to sum and moves the weights by its gradient. The
\* range is halved, and the first half (whose sum cannot shrink) is replayed
\* before the second.
RECURSIVE Replay(_, _, _, _)
Replay(acc, r, a, b) ==
    IF a > b THEN acc
    ELSE IF a = b
    THEN LET l == BatchLoss(acc.w, r, a) IN [w |-> acc.w + l, sum |-> acc.sum + l]
    ELSE LET m == (a + b) \div 2
             half == Replay(acc, r, a, m)
         IN  IF half.sum >= acc.sum THEN Replay(half, r, m + 1, b) ELSE half

\* The batches a..BatchesDone-1 of the current pass sum to v: replayed from
\* the weights they started with (the current ones less v, as every batch
\* moves the weights by its loss), they end at the current weights with sum v.
SumOfBatchesFrom(a, v) ==
    Replay([w |-> net.w - v, sum |-> 0], it.shift, a, BatchesDone - 1)
        = [w |-> net.w, sum |-> v]

\* C12: a loss line is printed exactly after the batches i with
\* i mod 2000 = 1999; its value is the sum of loss.item() over the 2000
\* batches since the previous line or the start of the epoch, to be divided
\* by 2000; running_loss is 0 right after each line and at the start of each
\* epoch, and at the end of a pass it holds the sum over the batches left over.
C12_LossLines ==
    (nb = "cnn" /\ epoch \in 0..1 /\ err = "none") =>
        /\ [k \in 1..Len(LossLines) |-> <<LossLines[k][2], LossLines[k][3]>>]
             = (IF epoch = 0 THEN <<>>
                ELSE LabelsOfPass(0, LoaderLen(trainset, BatchSize)))
               \o LabelsOfPass(epoch, BatchesDone)
        /\ \A k \in 1..Len(LossLines) :
             (LossLines[k][3] - 1) % 2000 = 1999 /\ LossLines[k][5] = 2000
        /\ (pc = "t_next" /\ BatchesDone % 2000 = 0) => running_loss = 0
        /\ (pc = "t_next" /\ BatchesDone % 2000 = 0 /\ BatchesDone > 0) =>
             SumOfBatchesFrom(BatchesDone - 2000, LossLines[Len(LossLines)][4])
        /\ (pc = "t_next" /\ ~IterHasNext(it)) =>
             SumOfBatchesFrom(2000 * (BatchesDone \div 2000), running_loss)

\* The second pass has just printed its second line: four lines so far, the
\* last one over batches 2000..3999, and running_loss is back to 0.
C12_Witness ==
    /\ nb = "cnn" /\ pc = "t_next" /\ epoch = 1 /\ err = "none"
    /\ BatchesDone = 4000
    /\ Len(LossLines) = 4
    /\ LossLines[4][2] = 2 /\ LossLines[4][3] = 4000 /\ LossLines[4][4] > 0
    /\ running_loss = 0

\* The cell a position belongs to.
CellOf(p) ==
    IF p \in {"t_next", "t_unpack", "t_zero_grad", "t_forward", "t_loss", "t_backward",
              "t_step", "t_accumulate", "t_print", "t_finished"} THEN "c_train"
    ELSE IF p = "e_loop" THEN "c_eval"
    ELSE IF p \in {"k_loop", "k_print"} THEN "c_class_eval"
    ELSE IF p = "m_print_loop" THEN "m_print"
    ELSE p

\* Its place in the notebook, counted from the top; past the last cell when
\* the run is over.
CellIndex(p) ==
    IF p = "done" THEN Len(Cells) + 1
    ELSE CHOOSE j \in 1..Len(Cells) : Cells[j] = CellOf(p)

\* The notebook waits in next() for a batch that is not on the queue yet.
NotebookWaits ==
    /\ err = "none" /\ pc \in {"t_next", "e_loop", "k_loop"}
    /\ IterHasNext(it) /\ ~IterCanTake(it)

\* A worker process of some iterator has a batch to load.
WorkerCanRun == err = "none" /\ (WorkersCanLoad(it) \/ WorkersCanLoad(dataiter))

\* An iterator as the notebook sees it: which loader, which order, how many
\* batches it has handed over.
Handed(t) == [loader |-> t.loader, shift |-> t.shift, pos |-> t.pos]

\* Everything the notebook's own thread reads or writes.
NotebookState ==
    <<commonVars, mlpVars, net, trainset, testset, images, labels, trainVars,
      evalVars, fwdVars, Handed(it), Handed(dataiter)>>

\* C13 as stated: nothing runs beside the notebook's thread and that thread
\* never waits: at no time has a loader worker a batch to load, and next()
\* never finds its batch missing.
C13_NoWorkerNoWaiting == ~WorkerCanRun /\ ~NotebookWaits

\* What holds of the iterators at all times: workers are never ahead of the
\* notebook by more than one batch per worker nor behind it, the MLP notebook
\* has no iterator at all, and a batch the notebook waits for can be loaded.
C13_Iterators ==
    /\ \A t \in {it, dataiter} :
         /\ t.pos <= t.ready
         /\ t.ready <= t.pos + NumWorkers
         /\ t.ready <= LoaderLen(IterSet(t), BatchSize)
    /\ nb # "cnn" => (it = NoIter /\ dataiter = NoIter)
    /\ NotebookWaits => WorkersCanLoad(it)

\* C13 as amended: the cells run top to bottom in one thread, and the MLP
\* notebook runs nothing else; in the CNN notebook every iterator over a
\* loader has worker processes (num_workers=2) that load batches while the
\* notebook's thread goes on. A step is either the notebook's, which goes to
\* the same or the next cell, leaves the workers' loads alone except where it
\* makes a new iterator, and takes from an iterator the batch its order
\* dictates; or a worker's, which puts one more batch on one iterator's queue
\* and touches nothing the notebook's thread reads or writes. The notebook
\* waits in next() until its batch is loaded, which it always can be.
C13_OneThreadAndLoaderWorkers ==
    /\ []C13_Iterators
    /\ [][ \/ \* a worker loads a batch
              /\ UNCHANGED NotebookState
              /\ \/ it'.ready = it.ready + 1 /\ dataiter' = dataiter
                 \/ dataiter'.ready = dataiter.ready + 1 /\ it' = it
              /\ nb = "cnn" /\ WorkerCanRun
           \/ \* the notebook's thread takes a step
              /\ NotebookState' # NotebookState
              /\ nb \in {"mlp", "cnn"} =>
                    CellIndex(pc') \in {CellIndex(pc), CellIndex(pc) + 1}
              /\ \A pair \in {<<it, it'>>, <<dataiter, dataiter'>>} :
                    \/ pair[2] = pair[1]
                    \/ pair[2] = IterAdvance(pair[1]) /\ IterCanTake(pair[1])
                    \/ pair[2] \in TrainIters \cup {TestIter}
                    \/ pair[2] \in {IterFirst(t) : t \in TrainIters \cup {TestIter}}
              /\ it' = IterAdvance(it) => data' = IterBatch(it)
              /\ dataiter' # dataiter =>
                    <<images', labels'>> = IterBatch([dataiter' EXCEPT !.pos = 0])
         ]_vars

\* The training loop is in the middle of a batch while the workers have the
\* next batch on the queue and another one to load.
C13_Witness ==
    /\ nb = "cnn" /\ pc = "t_forward" /\ err = "none"
    /\ it.ready > it.pos /\ WorkersCanLoad(it)

============================================================================
